---- MODULE Spec2Model ----
(***************************************************************************)
(* TransitFlow crowd predictor: the prediction endpoint with its Redis     *)
(* read-through cache (app/api.py, app/cache.py), the observation write    *)
(* paths (app/api.py, app/data_loader.py) and the model bundle life cycle  *)
(* (app/ml_model.py, app/main.py).                                         *)
(*                                                                         *)
(* Storage (the SQL database) and the cache (Redis) are external services  *)
(* shared by every worker process that serves the application.  The model  *)
(* follows ONE worker process and its process-wide bundle.  Handlers are   *)
(* `async def` without an await, so inside one worker each handler runs    *)
(* to completion; handlers that only touch storage and the cache           *)
(* (create_observation, generate_sample_data) may also run on another      *)
(* worker, and so may run between the storage reads and the cache write    *)
(* of a predict request of the followed worker.                            *)
(*                                                                         *)
(* Python strings are sequences of one-character strings.                  *)
(***************************************************************************)
EXTENDS Integers, Sequences, FiniteSets, TLC

VARIABLES
    trips,          \* storage: trips table, trip id -> route id
    stops,          \* storage: stops table, stop id -> zone_id (or Null)
    routes,         \* storage: routes table, route id -> route_type
    observations,   \* storage: observations table, row id -> row
    cache,          \* Redis: key -> [val: the JSON document, ttl: seconds left,
                    \*                age: seconds since it was stored]
    cacheUp,        \* Redis reachable from the workers
    bundle,         \* crowd_predictor: model, label_encoder, scaler, feature_columns, is_trained
    blob,           \* the pickle file at settings.MODEL_PATH: None, or Some(content)
    inflight,       \* the predict requests between their storage reads and their cache write
    basis,          \* history: key -> observation ids the cached value was computed from
    acked,          \* history: observation ids create_observation has answered 200 for
    last            \* the response of the last completed operation

vars == <<trips, stops, routes, observations, cache, cacheUp, bundle, blob,
          inflight, basis, acked, last>>

\* Python None for an optional value: the empty sequence; a present value x is <<x>>.
None == <<>>
Some(x) == <<x>>

(***************************************************************************)
(* Bounds of the model.                                                    *)
(***************************************************************************)
MaxObs == 2

(***************************************************************************)
(* Strings.                                                                *)
(***************************************************************************)
Colon == <<":">>

TripA == <<"a">>
TripGlob == <<"[", "a", "]">>
TripMissing == <<"b">>
StopS == <<"s">>
StopMissing == <<"x">>
TimeAM == <<"0", "8", ":", "0", "0", ":", "0", "0">>
TimePM == <<"1", "7", ":", "3", "0", ":", "0", "0">>
TimeBad == <<"8", "a", "m">>
DateMon == <<"2", "0", "2", "4", "-", "0", "1", "-", "1", "5">>

Request(trip_id, stop_id, departure_time, date) ==
    [trip_id |-> trip_id, stop_id |-> stop_id,
     departure_time |-> departure_time, date |-> date]

\* The predict requests of the model: two times of one (trip, stop), a trip
\* id that reads as a glob class, an unknown trip, an unknown stop, a
\* malformed time.
Requests ==
    { Request(TripA, StopS, TimeAM, DateMon),
      Request(TripA, StopS, TimePM, DateMon),
      Request(TripGlob, StopS, TimeAM, DateMon),
      Request(TripMissing, StopS, TimeAM, DateMon),
      Request(TripA, StopMissing, TimeAM, DateMon),
      Request(TripA, StopS, TimeBad, DateMon) }

KeyPrefix == <<"p", "r", "e", "d", "i", "c", "t", "i", "o", "n">>

\* Mutant: the key is built without delimiters between the components.
CacheKeyNoDelimiter(trip_id, stop_id, departure_time, date) ==
    KeyPrefix \o Colon \o trip_id \o stop_id \o departure_time \o date

\* f"prediction:{trip_id}:{stop_id}:{departure_time}:{date}"
CacheKey(trip_id, stop_id, departure_time, date) ==
    KeyPrefix \o Colon \o trip_id \o Colon \o stop_id \o Colon
        \o departure_time \o Colon \o date

KeyOf(req) == CacheKey(req.trip_id, req.stop_id, req.departure_time, req.date)

\* The pattern invalidate_predictions builds; None and "" are both falsy (<<>>).
Given(x) == x # <<>>

InvalidatePattern(trip_id, stop_id) ==
    IF Given(trip_id) /\ Given(stop_id)
    THEN KeyPrefix \o Colon \o trip_id \o Colon \o stop_id \o Colon \o <<"*">>
    ELSE IF Given(trip_id)
    THEN KeyPrefix \o Colon \o trip_id \o Colon \o <<"*">>
    ELSE IF Given(stop_id)
    THEN KeyPrefix \o Colon \o <<"*">> \o Colon \o stop_id \o Colon \o <<"*">>
    ELSE KeyPrefix \o Colon \o <<"*">>

\* Position of the "]" closing the class opened at p[1] = "[" (0 when none):
\* the first "]" after the optional "^".
RECURSIVE ClassEnd(_, _)
ClassEnd(p, i) ==
    IF i > Len(p) THEN 0
    ELSE IF p[i] = "]" THEN i
    ELSE ClassEnd(p, i + 1)

\* Redis glob matching (KEYS pattern): "*", "?", "[...]" with "^" negation,
\* "\" escaping the next character.
RECURSIVE GlobMatch(_, _)
GlobMatch(p, s) ==
    IF p = <<>> THEN s = <<>>
    ELSE IF Head(p) = "*"
    THEN \E i \in 0..Len(s) : GlobMatch(Tail(p), SubSeq(s, i + 1, Len(s)))
    ELSE IF s = <<>> THEN FALSE
    ELSE IF Head(p) = "?" THEN GlobMatch(Tail(p), Tail(s))
    ELSE IF Head(p) = "["
    THEN LET neg == Len(p) >= 2 /\ p[2] = "^"
             from == IF neg THEN 3 ELSE 2
             close == ClassEnd(p, from)
             upto == IF close = 0 THEN Len(p) ELSE close - 1
             members == {p[j] : j \in from..upto}
             rest == IF close = 0 THEN <<>> ELSE SubSeq(p, close + 1, Len(p))
         IN  ((Head(s) \in members) # neg) /\ GlobMatch(rest, Tail(s))
    ELSE IF Head(p) = "\\" /\ Len(p) >= 2
    THEN p[2] = Head(s) /\ GlobMatch(SubSeq(p, 3, Len(p)), Tail(s))
    ELSE Head(p) = Head(s) /\ GlobMatch(Tail(p), Tail(s))

(***************************************************************************)
(* datetime.strptime(f"{date} {departure_time}", "%Y-%m-%d %H:%M:%S").     *)
(***************************************************************************)
DigitChars == {"0", "1", "2", "3", "4", "5", "6", "7", "8", "9"}

DigitVal(c) ==
    CASE c = "0" -> 0 [] c = "1" -> 1 [] c = "2" -> 2 [] c = "3" -> 3
      [] c = "4" -> 4 [] c = "5" -> 5 [] c = "6" -> 6 [] c = "7" -> 7
      [] c = "8" -> 8 [] c = "9" -> 9

IsDigits(s) == Len(s) > 0 /\ \A i \in 1..Len(s) : s[i] \in DigitChars

RECURSIVE ToInt(_)
ToInt(s) ==
    IF s = <<>> THEN 0
    ELSE 10 * ToInt(SubSeq(s, 1, Len(s) - 1)) + DigitVal(s[Len(s)])

\* The fields of s between occurrences of the character sep.
RECURSIVE Split(_, _)
Split(s, sep) ==
    IF \A i \in 1..Len(s) : s[i] # sep THEN <<s>>
    ELSE LET i == CHOOSE j \in 1..Len(s) :
                      s[j] = sep /\ \A k \in 1..(j - 1) : s[k] # sep
         IN  <<SubSeq(s, 1, i - 1)>> \o Split(SubSeq(s, i + 1, Len(s)), sep)

\* A field of one or two digits whose value lies in lo..hi.
FieldOk(f, lo, hi) == IsDigits(f) /\ Len(f) <= 2 /\ ToInt(f) \in lo..hi

IsLeap(y) == (y % 4 = 0 /\ y % 100 # 0) \/ y % 400 = 0

DaysIn(y, m) ==
    IF m = 2 THEN (IF IsLeap(y) THEN 29 ELSE 28)
    ELSE IF m \in {4, 6, 9, 11} THEN 30 ELSE 31

\* date.weekday(): Monday is 0, Sunday is 6.
SakamotoTable == <<0, 3, 2, 5, 0, 3, 5, 1, 4, 6, 2, 4>>

Weekday(y, m, d) ==
    LET yy == IF m < 3 THEN y - 1 ELSE y
        sunday0 == (yy + (yy \div 4) - (yy \div 100) + (yy \div 400)
                       + SakamotoTable[m] + d) % 7
    IN  (sunday0 + 6) % 7

\* None when strptime raises ValueError.
ParseDateTime(date, departure_time) ==
    LET df == Split(date, "-")
        tf == Split(departure_time, ":")
    IN  IF /\ Len(df) = 3 /\ Len(tf) = 3
           /\ IsDigits(df[1]) /\ Len(df[1]) = 4
           /\ FieldOk(df[2], 1, 12)
           /\ FieldOk(df[3], 1, 31)
           /\ ToInt(df[3]) <= DaysIn(ToInt(df[1]), ToInt(df[2]))
           /\ FieldOk(tf[1], 0, 23) /\ FieldOk(tf[2], 0, 59) /\ FieldOk(tf[3], 0, 61)
        THEN Some([year |-> ToInt(df[1]), month |-> ToInt(df[2]), day |-> ToInt(df[3]),
                   hour |-> ToInt(tf[1]), minute |-> ToInt(tf[2]),
                   second |-> ToInt(tf[3])])
        ELSE None

(***************************************************************************)
(* CrowdPredictor (app/ml_model.py).  A fitted encoder is its vocabulary   *)
(* (classes_), a fitted scaler the mean/scale of the numeric columns it    *)
(* was fitted on, a fitted classifier the training frame it was fitted on. *)
(***************************************************************************)
FeatureColumns ==
    <<"hour", "day_of_week", "month", "is_weekend", "is_holiday",
      "stop_sequence", "has_shelter", "has_washroom", "has_bike_rack",
      "has_bench", "zone_id", "route_type">>

AmenityCols == {"has_shelter", "has_washroom", "has_bike_rack", "has_bench"}

NotFitted == [fitted |-> FALSE]

\* CrowdPredictor.__init__
NewPredictor ==
    [model |-> NotFitted, label_encoder |-> NotFitted, scaler |-> NotFitted,
     feature_columns |-> FeatureColumns, is_trained |-> FALSE]

NoZone == "<None>"
NoLabel == "<None>"
UnknownZone == "unknown"
\* The zone identifiers of the model in sorted order (np.unique sorts classes_).
ZoneOrder == <<"unknown", "z1", "z2">>

ZoneRank(z) == CHOOSE i \in 1..Len(ZoneOrder) : ZoneOrder[i] = z

RangeOf(f) == {f[x] : x \in DOMAIN f}

RECURSIVE SumOver(_, _)
SumOver(f, S) ==
    IF S = {} THEN 0
    ELSE LET x == CHOOSE y \in S : TRUE IN f[x] + SumOver(f, S \ {x})

\* The columns of the frame prepare_features returns (both merges are left
\* joins on a key that must be a column of both sides, else KeyError).
PrepareFeaturesOk(t) ==
    /\ "stop_id" \in t.obs_cols /\ "stop_id" \in t.stops_cols
    /\ "route_id" \in (t.obs_cols \cup t.stops_cols) /\ "route_id" \in t.routes_cols
    /\ "observation_time" \in t.obs_cols \cup t.stops_cols \cup t.routes_cols
    /\ "zone_id" \in t.obs_cols \cup t.stops_cols \cup t.routes_cols
    /\ "route_type" \in t.obs_cols \cup t.stops_cols \cup t.routes_cols

PreparedColumns(t) ==
    t.obs_cols \cup t.stops_cols \cup t.routes_cols \cup AmenityCols
        \cup {"hour", "day_of_week", "month", "is_weekend", "is_holiday"}

\* X = df[self.feature_columns]; y = df['crowd_level']
SelectOk(b, t) ==
    /\ \A i \in 1..Len(b.feature_columns) : b.feature_columns[i] \in PreparedColumns(t)
    /\ "crowd_level" \in PreparedColumns(t)

\* train_test_split(test_size=0.2, stratify=y): labels is class -> row count.
StratifyOk(labels) ==
    LET n == SumOver(labels, DOMAIN labels)
        n_test == (n + 4) \div 5
        n_train == n - n_test
        n_classes == Cardinality(DOMAIN labels)
    IN  /\ NoLabel \notin DOMAIN labels
        /\ n_train > 0
        /\ \A c \in DOMAIN labels : labels[c] >= 2
        /\ n_train >= n_classes /\ n_test >= n_classes

\* Mutant: the trained flag is set before the step that raises.
TrainRaisedFlagged(b, step) ==
    [bundle |-> [b EXCEPT !.is_trained = TRUE], ok |-> FALSE, step |-> step]

\* train left by an exception at `step`: whatever was assigned so far stays.
TrainRaised(b, step) == [bundle |-> b, ok |-> FALSE, step |-> step]

\* CrowdPredictor.train: the bundle it leaves and whether it returned.
Train(b, t) ==
    IF ~PrepareFeaturesOk(t) \/ ~SelectOk(b, t) THEN TrainRaised(b, "features")
    ELSE IF ~t.zones_uniform THEN TrainRaised(b, "encoder")
    ELSE
      LET b1 == [b EXCEPT !.label_encoder = [fitted |-> TRUE, classes |-> t.zones]]
      IN  IF ~t.numeric_ok
          THEN TrainRaised([b1 EXCEPT !.scaler = NotFitted], "scaler")
          ELSE
            LET b2 == [b1 EXCEPT !.scaler = [fitted |-> TRUE, params |-> t.stats]]
            IN  IF ~StratifyOk(t.labels) THEN TrainRaised(b2, "split")
                ELSE IF t.nan_features THEN TrainRaised(b2, "classifier")
                ELSE [bundle |-> [b2 EXCEPT !.model = [fitted |-> TRUE, fit |-> t.name,
                                                      columns |-> b.feature_columns],
                                            !.is_trained = TRUE],
                      ok |-> TRUE, step |-> "done"]

Raise(kind) == [ok |-> FALSE, error |-> kind]

\* Mutant: predict builds its features dictionary with the last two keys in
\* the other order.
PredictFeatureNamesSwapped ==
    <<"hour", "day_of_week", "month", "is_weekend", "is_holiday",
      "stop_sequence", "has_shelter", "has_washroom", "has_bike_rack",
      "has_bench", "route_type", "zone_id">>

\* The keys of the features dictionary of predict, in the order it writes
\* them: the columns of the one-row frame X it hands to the classifier.
PredictFeatureNames ==
    <<"hour", "day_of_week", "month", "is_weekend", "is_holiday",
      "stop_sequence", "has_shelter", "has_washroom", "has_bike_rack",
      "has_bench", "zone_id", "route_type">>

\* Mutant: the untrained model raises an error that is no ValueError.
NotTrainedRuntimeError == Raise("RuntimeError")

\* raise ValueError("Model must be trained before making predictions")
NotTrainedError == Raise("ValueError")

\* CrowdPredictor.predict against the storage tables tr (trips), st (stops),
\* ro (routes): the (prediction, confidence, feature_columns) it returns or
\* the exception it raises.
Predict(b, req, tr, st, ro) ==
    IF ~b.is_trained THEN NotTrainedError
    ELSE
      LET parsed == ParseDateTime(req.date, req.departure_time) IN
      IF parsed = None THEN Raise("ValueError")
      ELSE IF req.stop_id \notin DOMAIN st \/ req.trip_id \notin DOMAIN tr
      THEN Raise("ValueError")
      ELSE
        LET dt == parsed[1]
            dow == Weekday(dt.year, dt.month, dt.day)
            zone == IF st[req.stop_id] = NoZone THEN UnknownZone ELSE st[req.stop_id]
            route_type == IF tr[req.trip_id] \in DOMAIN ro THEN ro[tr[req.trip_id]] ELSE 0
        IN  IF ~b.label_encoder.fitted THEN Raise("ValueError")
            ELSE IF zone \notin b.label_encoder.classes THEN Raise("ValueError")
            ELSE IF ~b.scaler.fitted THEN Raise("ValueError")
            ELSE IF ~b.model.fitted THEN Raise("ValueError")
            ELSE
              LET X == [hour |-> dt.hour, day_of_week |-> dow, month |-> dt.month,
                        is_weekend |-> IF dow \in {5, 6} THEN 1 ELSE 0,
                        is_holiday |-> 0, stop_sequence |-> 1,
                        has_shelter |-> 0, has_washroom |-> 0,
                        has_bike_rack |-> 0, has_bench |-> 0,
                        zone_id |-> Cardinality({c \in b.label_encoder.classes :
                                                   ZoneRank(c) < ZoneRank(zone)}),
                        route_type |-> route_type,
                        scaled_by |-> b.scaler.params]
              IN  [ok |-> TRUE,
                   prediction |-> [clf |-> b.model.fit, x |-> X,
                                   columns |-> PredictFeatureNames],
                   features |-> b.feature_columns]

\* Mutant: predict scales the numeric columns with fit_transform, refitting
\* the scaler on the one row of the request.
PredictRefitsScaler(b, req, tr, st, ro) ==
    IF b.is_trained
    THEN [b EXCEPT !.scaler = [fitted |-> TRUE, params |-> "request"]]
    ELSE b

\* The predictor after CrowdPredictor.predict, returned or raised: predict
\* assigns no member and calls only transform, predict and predict_proba.
PredictorAfterPredict(b, req, tr, st, ro) == b

\* pickle.dump / pickle.load of a dictionary.
PickleDumps(d) == <<"pickle", d>>
PickleLoad(text) == text[2]

\* The keys load_model reads, in the order it reads them.
ModelDataKeys == {"model", "label_encoder", "scaler", "feature_columns", "is_trained"}

\* Mutant: save_model leaves the scaler out of model_data.
SaveModelDataNoScaler(b) ==
    PickleDumps([model |-> b.model, label_encoder |-> b.label_encoder,
                 feature_columns |-> b.feature_columns,
                 is_trained |-> b.is_trained])

\* save_model: the file content, the pickled model_data dictionary.
SaveModelData(b) ==
    PickleDumps([model |-> b.model, label_encoder |-> b.label_encoder,
                 scaler |-> b.scaler, feature_columns |-> b.feature_columns,
                 is_trained |-> b.is_trained])

\* load_model finds every key it reads.
LoadModelOk(text) == ModelDataKeys \subseteq DOMAIN PickleLoad(text)

\* load_model on a readable file: the members are assigned one after the
\* other, and a missing key raises KeyError after the assignments before it.
LoadModelData(b, text) ==
    LET model_data == PickleLoad(text)
        Has(k) == k \in DOMAIN model_data
    IN  IF ~Has("model") THEN b
        ELSE LET b1 == [b EXCEPT !.model = model_data.model] IN
        IF ~Has("label_encoder") THEN b1
        ELSE LET b2 == [b1 EXCEPT !.label_encoder = model_data.label_encoder] IN
        IF ~Has("scaler") THEN b2
        ELSE LET b3 == [b2 EXCEPT !.scaler = model_data.scaler] IN
        IF ~Has("feature_columns") THEN b3
        ELSE LET b4 == [b3 EXCEPT !.feature_columns = model_data.feature_columns] IN
        IF ~Has("is_trained") THEN b4
        ELSE [b4 EXCEPT !.is_trained = model_data.is_trained]

(***************************************************************************)
(* CacheManager (app/cache.py).  Every Redis call raises while Redis is    *)
(* unreachable; each method catches the exception.                         *)
(***************************************************************************)
CACHE_TTL == 3600
\* Time passes in steps of TickSeconds.
TickSeconds == 3600

\* json.dumps / json.loads of a response dictionary.
JsonDumps(d) == <<"json", d>>
JsonLoads(text) == text[2]

\* Mutant: the except clause returns an error dictionary.
GetPredictionFailedDict == Some([error |-> "ConnectionError"])

\* What get_prediction returns when the Redis call raised: the exception is
\* logged and the method falls through to `return None`.
GetPredictionFailed == None

\* get_prediction: Some(dict) on a hit, None on a miss or an error.
GetPrediction(c, up, trip_id, stop_id, departure_time, date) ==
    LET cache_key == CacheKey(trip_id, stop_id, departure_time, date) IN
    IF ~up THEN GetPredictionFailed
    ELSE IF cache_key \in DOMAIN c THEN Some(JsonLoads(c[cache_key].val))
    ELSE None

\* Mutant: set_prediction builds its key with date and time swapped.
SetPredictionOtherKey(c, up, trip_id, stop_id, departure_time, date, prediction_data) ==
    LET cache_key == CacheKey(trip_id, stop_id, date, departure_time) IN
    IF up
    THEN [k \in DOMAIN c \cup {cache_key} |->
            IF k = cache_key
            THEN [val |-> JsonDumps(prediction_data), ttl |-> CACHE_TTL, age |-> 0]
            ELSE c[k]]
    ELSE c

\* Mutant: set_prediction stores the entry with twice the configured TTL.
SetPredictionLongTtl(c, up, trip_id, stop_id, departure_time, date, prediction_data) ==
    LET cache_key == CacheKey(trip_id, stop_id, departure_time, date) IN
    IF up
    THEN [k \in DOMAIN c \cup {cache_key} |->
            IF k = cache_key
            THEN [val |-> JsonDumps(prediction_data), ttl |-> 2 * CACHE_TTL, age |-> 0]
            ELSE c[k]]
    ELSE c

\* set_prediction: the store afterwards.
SetPrediction(c, up, trip_id, stop_id, departure_time, date, prediction_data) ==
    LET cache_key == CacheKey(trip_id, stop_id, departure_time, date) IN
    IF up
    THEN [k \in DOMAIN c \cup {cache_key} |->
            IF k = cache_key
            THEN [val |-> JsonDumps(prediction_data), ttl |-> CACHE_TTL, age |-> 0]
            ELSE c[k]]
    ELSE c

\* invalidate_predictions: the store afterwards.
InvalidatePredictions(c, up, trip_id, stop_id) ==
    LET pattern == InvalidatePattern(trip_id, stop_id)
        keys == {k \in DOMAIN c : GlobMatch(pattern, k)}
    IN  IF up THEN [k \in DOMAIN c \ keys |-> c[k]] ELSE c

(***************************************************************************)
(* Request handlers (app/api.py).                                          *)
(***************************************************************************)
Matching(obs, trip_id, stop_id) ==
    {i \in DOMAIN obs : obs[i].trip_id = trip_id /\ obs[i].stop_id = stop_id}

\* int(total / n): Python's int() drops the fraction, towards zero.
IntOfQuotient(total, n) ==
    IF total >= 0 THEN total \div n ELSE -((-total) \div n)

\* _get_historical_average when the query returned its rows
GetHistoricalAverage(obs, trip_id, stop_id) ==
    LET result == Matching(obs, trip_id, stop_id)
        boarding == [i \in result |-> obs[i].boarding_count]
    IN  IF result # {}
        THEN Some(IntOfQuotient(SumOver(boarding, result), Cardinality(result)))
        ELSE None

\* _get_historical_average when the query raised: the exception is logged
\* and the function falls through to `return None`.
HistoricalAverageFailed == None

\* The detail of an error response: a fixed message and, where the handler
\* formats str(e) into it, the text of the exception.
Detail(message, exception) == [message |-> message, exception |-> exception]
\* HTTPException(status_code=500, detail="Prediction failed")
PredictionFailed(e) == Detail("Prediction failed", None)
\* HTTPException(status_code=500, detail=f"Training failed: {str(e)}")
TrainingFailed(e) == Detail("Training failed: ", Some(e))
\* HTTPException(status_code=500, detail=f"Data loading failed: {str(e)}")
DataLoadingFailed(e) == Detail("Data loading failed: ", Some(e))
\* An exception no handler catches: the server's plain 500 response.
InternalServerError == Detail("Internal Server Error", None)

\* A response: the HTTP status (200 also for a direct call that returned,
\* 500 for one that raised), the body, where a prediction came from
\* ("cache", "model") and, as history, whether the Redis calls made for the
\* request got through ("ok", "down", "unused").
Response(op, req, status, body, src, redis) ==
    [op |-> op, req |-> req, status |-> status, body |-> body, src |-> src,
     redis |-> redis]

RedisState(up) == IF up THEN "ok" ELSE "down"

\* Mutant: only the trip is looked for.
NotFoundTripOnly(req, tr, st) == req.trip_id \notin DOMAIN tr

\* predict_crowd: `if not trip` / `if not stop`, each raising 404.
NotFound(req, tr, st) ==
    req.trip_id \notin DOMAIN tr \/ req.stop_id \notin DOMAIN st

\* Mutant: predict_crowd looks the trip and the stop up before it probes the
\* cache.
PredictOutcomeStorageFirst(c, up, req) ==
    LET cached_result == GetPrediction(c, up, req.trip_id, req.stop_id,
                                       req.departure_time, req.date)
        r == Predict(bundle, req, trips, stops, routes)
    IN  IF NotFound(req, trips, stops)
        THEN [done |-> TRUE,
              response |-> Response("predict", Some(req), 404, None, "none",
                                    RedisState(up))]
        ELSE IF cached_result # None
        THEN [done |-> TRUE,
              response |-> Response("predict", Some(req), 200, cached_result, "cache",
                                    RedisState(up))]
        ELSE IF ~r.ok
        THEN [done |-> TRUE,
              response |-> Response("predict", Some(req),
                                    IF r.error = "ValueError" THEN 400 ELSE 500,
                                    IF r.error = "ValueError" THEN None
                                    ELSE Some(PredictionFailed(r.error)),
                                    "none", RedisState(up))]
        ELSE [done |-> FALSE,
              pending |->
                [req |-> req,
                 response |->
                   [trip_id |-> req.trip_id, stop_id |-> req.stop_id,
                    departure_time |-> req.departure_time, date |-> req.date,
                    predicted_crowd_level |-> r.prediction,
                    confidence |-> r.prediction,
                    historical_average |->
                        GetHistoricalAverage(observations, req.trip_id, req.stop_id),
                    features_used |-> r.features],
                 basis |-> Matching(observations, req.trip_id, req.stop_id),
                 redis |-> RedisState(up)]]

\* predict_crowd up to the cache write, against the cache c: the cache
\* probe, the existence checks, the model and the historical average.
\* Either the response is decided (done) or a computed response is pending
\* its cache write.
PredictOutcome(c, up, req) ==
    LET cached_result == GetPrediction(c, up, req.trip_id, req.stop_id,
                                       req.departure_time, req.date)
        r == Predict(bundle, req, trips, stops, routes)
    IN  IF cached_result # None
        THEN [done |-> TRUE,
              response |-> Response("predict", Some(req), 200, cached_result, "cache",
                                    RedisState(up))]
        ELSE IF NotFound(req, trips, stops)
        THEN [done |-> TRUE,
              response |-> Response("predict", Some(req), 404, None, "none",
                                    RedisState(up))]
        ELSE IF ~r.ok
        THEN [done |-> TRUE,
              response |-> Response("predict", Some(req),
                                    IF r.error = "ValueError" THEN 400 ELSE 500,
                                    IF r.error = "ValueError" THEN None
                                    ELSE Some(PredictionFailed(r.error)),
                                    "none", RedisState(up))]
        ELSE [done |-> FALSE,
              pending |->
                [req |-> req,
                 response |->
                   [trip_id |-> req.trip_id, stop_id |-> req.stop_id,
                    departure_time |-> req.departure_time, date |-> req.date,
                    predicted_crowd_level |-> r.prediction,
                    confidence |-> r.prediction,
                    historical_average |->
                        GetHistoricalAverage(observations, req.trip_id, req.stop_id),
                    features_used |-> r.features],
                 basis |-> Matching(observations, req.trip_id, req.stop_id),
                 redis |-> RedisState(up)]]

PredictCrowd(req) ==
    /\ inflight = {}
    /\ LET out == PredictOutcome(cache, cacheUp, req) IN
       IF out.done
       THEN /\ last' = out.response
            /\ inflight' = inflight
       ELSE /\ inflight' = {out.pending}
            /\ last' = last
    /\ bundle' = IF GetPrediction(cache, cacheUp, req.trip_id, req.stop_id,
                                  req.departure_time, req.date) # None
                    \/ NotFound(req, trips, stops)
                 THEN bundle
                 ELSE PredictorAfterPredict(bundle, req, trips, stops, routes)
    /\ UNCHANGED <<trips, stops, routes, observations, cache, cacheUp, blob,
                   basis, acked>>

\* predict_crowd from the cache write to the response.
PredictCrowdStore ==
    \E f \in inflight :
        /\ cache' = SetPrediction(cache, cacheUp, f.req.trip_id, f.req.stop_id,
                                  f.req.departure_time, f.req.date, f.response)
        /\ basis' = IF cacheUp
                    THEN [k \in DOMAIN cache' |->
                            IF k \in DOMAIN basis /\ k # KeyOf(f.req)
                            THEN basis[k] ELSE f.basis]
                    ELSE basis
        /\ last' = Response("predict", Some(f.req), 200, Some(f.response), "model",
                            IF f.redis = "ok" THEN RedisState(cacheUp) ELSE "down")
        /\ inflight' = inflight \ {f}
        /\ UNCHANGED <<trips, stops, routes, observations, cacheUp, bundle, blob, acked>>

\* Storage contents after the feed has been loaded.
FeedTrips == (TripA :> "r1") @@ (TripGlob :> "r9")
FeedStops == (StopS :> "z1")
FeedRoutes == ("r1" :> 1)
Empty == [x \in {} |-> x]

ObsIds == 1..MaxObs
BoardingCounts == {10}
CrowdLevels == {"light"}
ObservationInputs ==
    [id : ObsIds, trip_id : {TripA, TripGlob, TripMissing}, stop_id : {StopS},
     boarding_count : BoardingCounts, crowd_level : CrowdLevels]

\* The ids a client sends: one already stored, or the next free one.
NextIds == {i \in ObsIds : i <= Cardinality(DOMAIN observations) + 1}

Restrict(f, S) == [k \in S |-> f[k]]

\* create_observation: existence checks, insert with the client's id,
\* commit, invalidate, respond.
CreateObservation(o) ==
    /\ IF o.trip_id \notin DOMAIN trips \/ o.stop_id \notin DOMAIN stops
       THEN /\ last' = Response("observe", Some(Request(o.trip_id, o.stop_id, <<>>, <<>>)),
                                404, None, "none", "unused")
            /\ UNCHANGED <<observations, cache, basis, acked>>
       ELSE IF o.id \in DOMAIN observations
       THEN \* IntegrityError on commit: not caught by the handler
            /\ last' = Response("observe", Some(Request(o.trip_id, o.stop_id, <<>>, <<>>)),
                                500, None, "none", "unused")
            /\ UNCHANGED <<observations, cache, basis, acked>>
       ELSE /\ observations' =
                 [i \in DOMAIN observations \cup {o.id} |->
                    IF i = o.id
                    THEN [trip_id |-> o.trip_id, stop_id |-> o.stop_id,
                          boarding_count |-> o.boarding_count,
                          crowd_level |-> o.crowd_level]
                    ELSE observations[i]]
            /\ cache' = InvalidatePredictions(cache, cacheUp, o.trip_id, o.stop_id)
            /\ basis' = Restrict(basis, DOMAIN cache')
            /\ acked' = acked \cup {o.id}
            /\ last' = Response("observe", Some(Request(o.trip_id, o.stop_id, <<>>, <<>>)),
                                200, None, "none", RedisState(cacheUp))
    /\ UNCHANGED <<trips, stops, routes, cacheUp, bundle, blob, inflight>>

MaxId(obs) == IF DOMAIN obs = {} THEN 0
              ELSE CHOOSE i \in DOMAIN obs : \A j \in DOMAIN obs : j <= i

SampleRows ==
    [trip_id : DOMAIN trips, stop_id : DOMAIN stops,
     boarding_count : BoardingCounts, crowd_level : CrowdLevels]

\* generate_sample_data -> GTFSDataLoader.generate_sample_observations:
\* num_observations random rows with ids assigned by the database; nothing
\* when there are no trips or no stops.  The cache is not touched.
GenerateSampleData(num_observations) ==
    /\ MaxId(observations) + num_observations <= MaxObs
    /\ IF DOMAIN trips = {} \/ DOMAIN stops = {}
       THEN observations' = observations
       ELSE \E rows \in [(MaxId(observations) + 1)..
                             (MaxId(observations) + num_observations) -> SampleRows] :
                observations' = [i \in DOMAIN observations \cup DOMAIN rows |->
                                    IF i \in DOMAIN rows THEN rows[i]
                                    ELSE observations[i]]
    /\ last' = Response("generate", None, 200, None, "none", "unused")
    /\ UNCHANGED <<trips, stops, routes, cache, cacheUp, bundle, blob, inflight,
                   basis, acked>>

\* The frames train_model builds from storage.
ObservationDfCols ==
    {"trip_id", "stop_id", "observation_time", "boarding_count", "alighting_count",
     "crowd_level", "weather_condition", "temperature"}
StopsDfCols == {"stop_id", "name", "latitude", "longitude", "zone_id"}
RoutesDfCols == {"route_id", "long_name", "route_type"}

StorageFrames ==
    [name |-> "storage",
     obs_cols |-> IF DOMAIN observations = {} THEN {} ELSE ObservationDfCols,
     stops_cols |-> IF DOMAIN stops = {} THEN {} ELSE StopsDfCols,
     routes_cols |-> IF DOMAIN routes = {} THEN {} ELSE RoutesDfCols,
     zones |-> {IF stops[observations[i].stop_id] = NoZone THEN UnknownZone
                ELSE stops[observations[i].stop_id] : i \in DOMAIN observations},
     zones_uniform |-> TRUE,
     numeric_ok |-> TRUE,
     nan_features |-> FALSE,
     stats |-> "storage",
     labels |-> [c \in {observations[i].crowd_level : i \in DOMAIN observations} |->
                   Cardinality({i \in DOMAIN observations :
                                   observations[i].crowd_level = c})]]

\* Mutant: a train invalidates every cached prediction.
TrainInvalidatesAll(c, up) == InvalidatePredictions(c, up, None, None)

\* The cache after train_model or CrowdPredictor.train: neither makes a call
\* of cache_manager.
CacheAfterTrain(c, up) == c

\* train_model.  The HTTPException(400) for an empty table is raised inside
\* the try block and `except Exception` turns it into a 500.
TrainModel ==
    /\ inflight = {}
    /\ IF DOMAIN observations = {}
       THEN /\ last' = Response("train", None, 500,
                                Some(TrainingFailed("400: No observations found for training")),
                                "none", "unused")
            /\ UNCHANGED <<bundle, blob>>
       ELSE LET results == Train(bundle, StorageFrames) IN
            /\ bundle' = results.bundle
            /\ IF results.ok
               THEN /\ blob' = Some(SaveModelData(results.bundle))
                    /\ last' = Response("train", None, 200, None, "none", "unused")
               ELSE /\ blob' = blob
                    /\ last' = Response("train", None, 500,
                                        Some(TrainingFailed(results.step)),
                                        "none", "unused")
    /\ cache' = CacheAfterTrain(cache, cacheUp)
    /\ UNCHANGED <<trips, stops, routes, observations, cacheUp, inflight,
                   basis, acked>>

\* A new worker process: CrowdPredictor() then startup_event.
StartupEvent ==
    /\ inflight = {}
    /\ bundle' = IF blob # None THEN LoadModelData(NewPredictor, blob[1])
                 ELSE NewPredictor
    /\ last' = Response("startup", None, 200, None, "none", "unused")
    /\ UNCHANGED <<trips, stops, routes, observations, cache, cacheUp, blob,
                   inflight, basis, acked>>

(***************************************************************************)
(* Direct calls of the CrowdPredictor methods on frames that carry the     *)
(* joined columns (route_id, stop_sequence).                               *)
(***************************************************************************)
JoinedObsCols == ObservationDfCols \cup {"route_id", "stop_sequence"}

Frames(name, zones, stats, uniform, numeric, nan, labels) ==
    [name |-> name, obs_cols |-> JoinedObsCols, stops_cols |-> StopsDfCols,
     routes_cols |-> RoutesDfCols, zones |-> zones, stats |-> stats,
     zones_uniform |-> uniform, numeric_ok |-> numeric, nan_features |-> nan,
     labels |-> labels]

City == Frames("city", {"z1", "unknown"}, "m1", TRUE, TRUE, FALSE,
               ("light" :> 5) @@ ("packed" :> 5))
Rural == Frames("rural", {"z2"}, "m2", TRUE, TRUE, FALSE,
                ("light" :> 4) @@ ("moderate" :> 4))
\* one class has a single row: the stratified split raises
Thin == Frames("thin", {"z1", "z2"}, "m2", TRUE, TRUE, FALSE,
               ("light" :> 4) @@ ("packed" :> 1))
\* a non-numeric stop_sequence: the scaler raises
Text == Frames("text", {"z1", "z2"}, "m2", TRUE, FALSE, FALSE,
               ("light" :> 5) @@ ("packed" :> 5))
\* zone ids mix strings and numbers: the encoder raises
Mixed == Frames("mixed", {"z2"}, "m2", FALSE, TRUE, FALSE,
                ("light" :> 5) @@ ("packed" :> 5))
\* a missing stop_sequence value: the classifier rejects NaN
Holes == Frames("holes", {"z2"}, "m2", TRUE, TRUE, TRUE,
                ("light" :> 5) @@ ("packed" :> 5))

TrainingSets == {City, Rural, Thin, Text, Mixed, Holes}

TrainCall(t) ==
    /\ inflight = {}
    /\ LET results == Train(bundle, t) IN
       /\ bundle' = results.bundle
       /\ last' = Response("train_call", None, IF results.ok THEN 200 ELSE 500,
                           None, "none", "unused")
    /\ cache' = CacheAfterTrain(cache, cacheUp)
    /\ UNCHANGED <<trips, stops, routes, observations, cacheUp, blob,
                   inflight, basis, acked>>

SaveModel ==
    /\ inflight = {}
    /\ blob' = Some(SaveModelData(bundle))
    /\ last' = Response("save", None, 200, None, "none", "unused")
    /\ UNCHANGED <<trips, stops, routes, observations, cache, cacheUp, bundle,
                   inflight, basis, acked>>

LoadModel ==
    /\ inflight = {}
    /\ IF blob = None
       THEN /\ bundle' = bundle
            /\ last' = Response("load", None, 500, None, "none", "unused")
       ELSE /\ bundle' = LoadModelData(bundle, blob[1])
            /\ last' = Response("load", None, IF LoadModelOk(blob[1]) THEN 200 ELSE 500,
                                None, "none", "unused")
    /\ UNCHANGED <<trips, stops, routes, observations, cache, cacheUp, blob,
                   inflight, basis, acked>>

(***************************************************************************)
(* The environment: Redis connectivity and the passage of time.            *)
(***************************************************************************)
RedisDown ==
    /\ cacheUp /\ cacheUp' = FALSE
    /\ UNCHANGED <<trips, stops, routes, observations, cache, bundle, blob,
                   inflight, basis, acked, last>>

RedisUp ==
    /\ ~cacheUp /\ cacheUp' = TRUE
    /\ UNCHANGED <<trips, stops, routes, observations, cache, bundle, blob,
                   inflight, basis, acked, last>>

\* Redis after `seconds` seconds: an entry lives while it has time left.
Elapse(seconds) ==
    /\ cache # Empty
    /\ LET live == {k \in DOMAIN cache : cache[k].ttl > seconds} IN
       /\ cache' = [k \in live |->
                      [cache[k] EXCEPT !.ttl = @ - seconds, !.age = @ + seconds]]
       /\ basis' = Restrict(basis, live \cap DOMAIN basis)
    /\ UNCHANGED <<trips, stops, routes, observations, cacheUp, bundle, blob,
                   inflight, acked, last>>

Tick == Elapse(TickSeconds)

Init ==
    /\ \E loaded \in BOOLEAN :
          /\ trips = IF loaded THEN FeedTrips ELSE Empty
          /\ stops = IF loaded THEN FeedStops ELSE Empty
          /\ routes = IF loaded THEN FeedRoutes ELSE Empty
    /\ observations = Empty
    /\ cache = Empty
    /\ cacheUp = TRUE
    /\ bundle = NewPredictor
    /\ blob = None
    /\ inflight = {}
    /\ basis = Empty
    /\ acked = {}
    /\ last = Response("startup", None, 200, None, "none", "unused")

(***************************************************************************)
(* Spec: the prediction cache and create_observation, around a worker      *)
(* whose bundle is untrained or trained on one frame.                      *)
(***************************************************************************)
Next ==
    \/ \E req \in Requests : PredictCrowd(req)
    \/ PredictCrowdStore
    \/ \E o \in ObservationInputs : o.id \in NextIds /\ CreateObservation(o)
    \/ StartupEvent
    \/ TrainCall(City)
    \/ RedisDown
    \/ RedisUp
    \/ Tick

Spec == Init /\ [][Next]_vars

(***************************************************************************)
(* SpecSample: both observation write paths, with Redis always reachable.  *)
(***************************************************************************)
SampleRequests ==
    { Request(TripA, StopS, TimeAM, DateMon),
      Request(TripA, StopS, TimePM, DateMon) }

SampleInputs == {o \in ObservationInputs : o.trip_id = TripA}

NextSample ==
    \/ \E req \in SampleRequests : PredictCrowd(req)
    \/ PredictCrowdStore
    \/ \E o \in SampleInputs : o.id \in NextIds /\ CreateObservation(o)
    \/ \E n \in 1..MaxObs : GenerateSampleData(n)
    \/ StartupEvent
    \/ TrainCall(City)
    \/ Tick

SpecSample == Init /\ [][NextSample]_vars

(***************************************************************************)
(* SpecBundle: the life cycle of the bundle (train on every frame, save,   *)
(* load, restart) with the predictions served from it.                     *)
(***************************************************************************)
BundleRequests ==
    { Request(TripA, StopS, TimeAM, DateMon),
      Request(TripMissing, StopS, TimeAM, DateMon),
      Request(TripA, StopS, TimeBad, DateMon) }

FirstObservation ==
    [id |-> 1, trip_id |-> TripA, stop_id |-> StopS, boarding_count |-> 10,
     crowd_level |-> "light"]

NextBundle ==
    \/ \E req \in BundleRequests : PredictCrowd(req)
    \/ PredictCrowdStore
    \/ CreateObservation(FirstObservation)
    \/ TrainModel
    \/ StartupEvent
    \/ \E t \in TrainingSets : TrainCall(t)
    \/ SaveModel
    \/ LoadModel
    \/ RedisDown
    \/ RedisUp

SpecBundle == Init /\ [][NextBundle]_vars

(***************************************************************************)
(* Claims.                                                                 *)
(***************************************************************************)
Probe(req) ==
    GetPrediction(cache, cacheUp, req.trip_id, req.stop_id, req.departure_time, req.date)

C2_ObservationClearsPair ==
    [][\A o \in ObservationInputs :
          (CreateObservation(o) /\ last'.op = "observe" /\ last'.status = 200)
          => \A req \in Requests :
                (req.trip_id = o.trip_id /\ req.stop_id = o.stop_id)
                => KeyOf(req) \notin DOMAIN cache']_vars

\* C3 as stated: a train call that raises leaves the encoder, the scaler,
\* the classifier and the trained flag as they were.
C3_FailedTrainKeepsBundle ==
    [][/\ \A t \in TrainingSets :
             (TrainCall(t) /\ ~Train(bundle, t).ok) => bundle' = bundle
       /\ (TrainModel /\ last'.status # 200) => bundle' = bundle]_vars

\* C4 as stated: train_model with no observation in storage answers 400 and
\* leaves the bundle and the persisted blob unchanged.
C4_EmptyTrain400 ==
    [][(TrainModel /\ DOMAIN observations = {})
       => (last'.op = "train" /\ last'.status = 400
           /\ bundle' = bundle /\ blob' = blob)]_vars

\* C5 as stated: with a trained bundle, a predict request that directly
\* follows a successful predict request with the same arguments returns the
\* same response, served from the cache.
C5_RepeatServedFromCache ==
    [][\A req \in Requests :
          (/\ PredictCrowd(req) /\ bundle.is_trained
           /\ last.op = "predict" /\ last.status = 200 /\ last.req = Some(req))
          => (last'.status = 200 /\ last'.src = "cache" /\ last'.body = last.body)]_vars

\* C5: while Redis is reachable a computed response is stored under the
\* request's key as it is returned; and a predict request that directly
\* follows a successful predict request with the same arguments, whose Redis
\* calls got through, returns the same response from the cache without
\* recomputing, provided Redis is reachable and the entry has not expired.
C5_RepeatWhileCached ==
    [][/\ \A req \in Requests :
             (/\ last.op = "predict" /\ last.status = 200 /\ last.req = Some(req)
              /\ last.redis = "ok"
              /\ cacheUp /\ KeyOf(req) \in DOMAIN cache
              /\ PredictCrowd(req))
             => (/\ last'.status = 200 /\ last'.src = "cache"
                 /\ last'.body = last.body
                 /\ inflight' = {} /\ cache' = cache)
       /\ (cacheUp /\ PredictCrowdStore)
          => \A f \in inflight :
                /\ KeyOf(f.req) \in DOMAIN cache'
                /\ JsonLoads(cache'[KeyOf(f.req)].val) = f.response
                /\ last'.body = Some(f.response)]_vars

C5_Witness ==
    /\ last.op = "predict" /\ last.status = 200 /\ last.src = "cache"
    /\ last.redis = "ok" /\ bundle.is_trained

\* C6 as stated: a predict request never returns a cached prediction that
\* was computed from storage lacking an observation of its (trip, stop)
\* that record_observation has already answered for.
C6_NoStaleAfterAck ==
    [][\A req \in Requests :
          (PredictCrowd(req) /\ Probe(req) # None)
          => (acked \cap Matching(observations, req.trip_id, req.stop_id))
                 \subseteq basis[KeyOf(req)]]_vars

\* C7 as stated: whichever operation stores new observation rows for a
\* (trip, stop), no cache entry for that (trip, stop) is left when it ends.
C7_WriteClearsPair ==
    [][\A req \in SampleRequests :
          (Matching(observations', req.trip_id, req.stop_id)
               # Matching(observations, req.trip_id, req.stop_id))
          => KeyOf(req) \notin DOMAIN cache']_vars

\* The encoder, the scaler and the classifier of b were fitted by one train
\* call.
Coherent(b) ==
    \E t \in TrainingSets :
        /\ b.model = [fitted |-> TRUE, fit |-> t.name, columns |-> b.feature_columns]
        /\ b.label_encoder = [fitted |-> TRUE, classes |-> t.zones]
        /\ b.scaler = [fitted |-> TRUE, params |-> t.stats]

\* C8 as stated: every prediction is computed from the encoder, the scaler
\* and the classifier of one single bundle.
C8_PredictFromOneBundle ==
    [][\A req \in BundleRequests :
          (PredictCrowd(req) /\ inflight' # {}) => Coherent(bundle)]_vars

TrainReturned ==
    \/ \E t \in TrainingSets : TrainCall(t) /\ Train(bundle, t).ok
    \/ TrainModel /\ last'.status = 200

\* C9 as stated: the bundle starts untrained and, within one process, only
\* a train call that returns changes the trained flag (a new process starts
\* with a new, untrained bundle).
C9_OnlyTrainSetsFlag ==
    /\ ~bundle.is_trained
    /\ [][(bundle'.is_trained # bundle.is_trained)
          => (TrainReturned \/ (StartupEvent /\ ~bundle'.is_trained))]_vars

\* C9: the bundle starts untrained; the flag goes from untrained to trained
\* only by a train call that returns or by a load (load_model, directly or
\* at startup) of a persisted bundle whose flag is set, and from trained to
\* untrained only by a load of a persisted bundle whose flag is clear or by
\* the start of a new process; predict, save and a train call that raises
\* never change it.
C9_FlagByTrainOrLoad ==
    /\ ~bundle.is_trained
    /\ [][/\ (~bundle.is_trained /\ bundle'.is_trained)
             => \/ TrainReturned
                \/ (LoadModel \/ StartupEvent) /\ blob # None /\ PickleLoad(blob[1]).is_trained
          /\ (bundle.is_trained /\ ~bundle'.is_trained)
             => \/ LoadModel /\ blob # None /\ ~PickleLoad(blob[1]).is_trained
                \/ StartupEvent]_vars

C9_Witness ==
    /\ last.op = "load" /\ last.status = 200 /\ ~bundle.is_trained
    /\ blob # None

\* C10: while Redis is unreachable no handler changes the cache or answers
\* with a cache error: predict_crowd answers as it would on an empty cache
\* (the same status, body and source, or the same computed response), its
\* cache write is dropped, and create_observation answers by storage alone.
C10_OutageIsMiss ==
    [][/\ \A req \in Requests :
             (/\ ~cacheUp
              /\ (inflight' # {} \/ (last'.op = "predict" /\ last'.req = Some(req)))
              /\ PredictCrowd(req))
             => LET out == PredictOutcome(Empty, TRUE, req) IN
                /\ cache' = cache
                /\ IF out.done
                   THEN /\ last'.status = out.response.status
                        /\ last'.body = out.response.body
                        /\ last'.src = out.response.src
                        /\ inflight' = {}
                   ELSE \E f \in inflight' :
                            /\ f.req = req
                            /\ f.response = out.pending.response
       /\ (~cacheUp /\ PredictCrowdStore)
          => /\ cache' = cache
             /\ \A f \in inflight :
                   last'.status = 200 /\ last'.body = Some(f.response)
       /\ \A o \in ObservationInputs :
             (~cacheUp /\ last'.op = "observe" /\ CreateObservation(o))
             => /\ cache' = cache
                /\ last'.status =
                      IF o.trip_id \notin DOMAIN trips \/ o.stop_id \notin DOMAIN stops
                      THEN 404
                      ELSE IF o.id \in DOMAIN observations THEN 500 ELSE 200]_vars

C10_Witness ==
    /\ last.op = "predict" /\ last.status = 200 /\ last.src = "model"
    /\ last.redis = "down" /\ cache = Empty

(***************************************************************************)
(* SpecAverage: _get_historical_average on bounded observation tables.     *)
(***************************************************************************)
MaxRows == 3
AverageCounts == {-3, 0, 10, 20, 30}
AverageRows ==
    [trip_id : {TripA, TripGlob}, stop_id : {StopS},
     boarding_count : AverageCounts, crowd_level : CrowdLevels]

InitAverage ==
    /\ trips = FeedTrips /\ stops = FeedStops /\ routes = FeedRoutes
    /\ \E n \in 0..MaxRows : observations \in [1..n -> AverageRows]
    /\ cache = Empty /\ cacheUp = TRUE /\ basis = Empty
    /\ bundle = NewPredictor /\ blob = None
    /\ inflight = {} /\ acked = {}
    /\ last = Response("startup", None, 200, None, "none", "unused")

\* One call of _get_historical_average(trip_id, stop_id, db); db_ok tells
\* whether the query got through.  The result is kept in last.body and the
\* fate of the query in last.src.
HistoricalAverageCall(trip_id, stop_id, db_ok) ==
    /\ last' = Response("average", Some(Request(trip_id, stop_id, <<>>, <<>>)), 200,
                        Some(IF db_ok
                             THEN GetHistoricalAverage(observations, trip_id, stop_id)
                             ELSE HistoricalAverageFailed),
                        IF db_ok THEN "storage" ELSE "storage_error", "unused")
    /\ UNCHANGED <<trips, stops, routes, observations, cache, cacheUp, bundle, blob,
                   inflight, basis, acked>>

NextAverage ==
    \E trip_id \in {TripA, TripGlob, TripMissing}, db_ok \in BOOLEAN :
        HistoricalAverageCall(trip_id, StopS, db_ok)

SpecAverage == InitAverage /\ [][NextAverage]_vars

\* The mean of the boarding counts of the rows in rows, fraction dropped:
\* the integer q of the mean's sign with |q| * n <= |total| < (|q| + 1) * n.
TruncatedMean(obs, rows) ==
    LET n == Cardinality(rows)
        total == SumOver([i \in rows |-> obs[i].boarding_count], rows)
    IN  CHOOSE q \in -30..30 :
            IF total >= 0
            THEN q >= 0 /\ q * n <= total /\ total < (q + 1) * n
            ELSE q <= 0 /\ q * n >= total /\ total > (q - 1) * n

\* C11 as stated: the historical average of (trip, stop) is the mean of
\* boarding_count over exactly the matching observations with the fraction
\* dropped, and it is null if and only if no observation matches (so all
\* zero counts give 0).
C11_AverageIsTruncatedMean ==
    last.op = "average" =>
        LET rows == Matching(observations, last.req[1].trip_id, last.req[1].stop_id)
            avg == last.body[1]
        IN  /\ (avg = None) <=> (rows = {})
            /\ rows # {} => avg = Some(TruncatedMean(observations, rows))

(***************************************************************************)
(* SpecLoad: load_model on model files that were not written by this       *)
(* save_model (an older layout, a truncated dictionary).                   *)
(***************************************************************************)
\* Dictionaries that lack at least one of the keys load_model reads.
ForeignModelData ==
    LET full == PickleLoad(SaveModelData(Train(NewPredictor, City).bundle)) IN
    {Restrict(full, K) : K \in (SUBSET ModelDataKeys) \ {ModelDataKeys}}

\* Something other than save_model puts a pickle at settings.MODEL_PATH.
ReplaceModelFile(model_data) ==
    /\ blob' = Some(PickleDumps(model_data))
    /\ last' = Response("file", None, 200, None, "none", "unused")
    /\ UNCHANGED <<trips, stops, routes, observations, cache, cacheUp, bundle,
                   inflight, basis, acked>>

NextLoad ==
    \/ \E model_data \in ForeignModelData : ReplaceModelFile(model_data)
    \/ TrainCall(Rural)
    \/ SaveModel
    \/ LoadModel
    \/ StartupEvent

SpecLoad == Init /\ [][NextLoad]_vars

\* C12 as stated: a load of a blob that lacks an expected member fails and
\* leaves classifier, encoder, scaler, feature ordering and trained flag
\* as they were before the call (for the load at startup: as constructed);
\* a load of a complete blob replaces all of them.
C12_LoadIsAllOrNothing ==
    [][/\ (blob # None /\ LoadModel)
          => IF LoadModelOk(blob[1])
             THEN last'.status = 200 /\ SaveModelData(bundle') = blob[1]
             ELSE last'.status = 500 /\ bundle' = bundle
       /\ (blob # None /\ StartupEvent)
          => IF LoadModelOk(blob[1])
             THEN SaveModelData(bundle') = blob[1]
             ELSE bundle' = NewPredictor]_vars

\* The bundles a process may hold when it loads a file.
LoadTargets ==
    {NewPredictor, bundle} \cup {Train(NewPredictor, t).bundle : t \in TrainingSets}

\* C13: save_model leaves the bundle alone and writes a blob from which
\* load_model, whatever the bundle it is called on, restores classifier,
\* encoder, scaler, feature ordering and trained flag equal to those saved,
\* so that predict answers every request as the saved bundle does; and
\* every load of a saved blob succeeds and yields the bundle the blob was
\* saved from.
C13_SaveLoadRoundTrip ==
    [][/\ (last'.op = "save" /\ SaveModel)
          => /\ bundle' = bundle
             /\ blob' # None
             /\ \A b \in LoadTargets :
                   /\ LoadModelOk(blob'[1])
                   /\ LoadModelData(b, blob'[1]) = bundle
                   /\ \A req \in BundleRequests :
                         Predict(LoadModelData(b, blob'[1]), req, trips, stops, routes)
                             = Predict(bundle, req, trips, stops, routes)
       /\ (blob # None /\ LoadModel)
          => last'.status = 200 /\ SaveModelData(bundle') = blob[1]
       /\ (blob # None /\ StartupEvent)
          => SaveModelData(bundle') = blob[1]]_vars

C13_Witness ==
    /\ last.op = "load" /\ last.status = 200
    /\ bundle.is_trained /\ bundle.scaler.fitted
    /\ blob = Some(SaveModelData(bundle))

(***************************************************************************)
(* SpecStorage: the database under the handlers: tables dropped while the  *)
(* cache and the bundle live on, and queries that raise.                   *)
(***************************************************************************)
\* Base.metadata.drop_all: every table is emptied; Redis is not touched.
DropAll ==
    /\ inflight = {}
    /\ trips' = Empty /\ stops' = Empty /\ routes' = Empty
    /\ observations' = Empty /\ acked' = {}
    /\ last' = Response("drop_all", None, 200, None, "none", "unused")
    /\ UNCHANGED <<cache, cacheUp, bundle, blob, inflight, basis>>

\* The queries of one predict request, in the order they are made.
Queries == {"trip_lookup", "stop_lookup", "model_lookup", "route_lookup", "average"}

\* predict_crowd when the query `at` raises (the others return): what the
\* request has come to when the exception has been handled.  The lookups
\* of lines 78-79 are outside the try block; those of CrowdPredictor.predict
\* end in `except Exception`; _get_historical_average catches its own.
PredictOutcomeDbError(out, up, req, at) ==
    LET Failed(detail) ==
            [done |-> TRUE,
             response |-> Response("predict", Some(req), 500, Some(detail), "none",
                                   RedisState(up))]
    IN  IF at \in {"trip_lookup", "stop_lookup"} THEN Failed(InternalServerError)
        ELSE IF at \in {"model_lookup", "route_lookup"}
        THEN Failed(PredictionFailed("OperationalError"))
        ELSE [done |-> FALSE,
              pending |-> [out.pending EXCEPT
                              !.response.historical_average = HistoricalAverageFailed]]

\* The request gets as far as the query `at`; out is what predict_crowd
\* does with it when no query fails.
Reaches(out, c, up, req, at) ==
    /\ GetPrediction(c, up, req.trip_id, req.stop_id, req.departure_time, req.date) = None
    /\ at \notin {"trip_lookup", "stop_lookup"}
       => /\ req.trip_id \in DOMAIN trips /\ req.stop_id \in DOMAIN stops
          /\ bundle.is_trained
          /\ ParseDateTime(req.date, req.departure_time) # None
    /\ at = "average" => ~out.done

PredictCrowdDbError(req, at) ==
    /\ inflight = {}
    /\ \E out \in {PredictOutcome(cache, cacheUp, req)} :
          /\ Reaches(out, cache, cacheUp, req, at)
          /\ \E failed \in {PredictOutcomeDbError(out, cacheUp, req, at)} :
                IF failed.done
                THEN /\ last' = failed.response
                     /\ inflight' = inflight
                ELSE /\ inflight' = {failed.pending}
                     /\ last' = last
    /\ UNCHANGED <<trips, stops, routes, observations, cache, cacheUp, bundle, blob,
                   basis, acked>>

StorageRequests ==
    { Request(TripA, StopS, TimeAM, DateMon),
      Request(TripA, StopMissing, TimeAM, DateMon),
      Request(TripMissing, StopS, TimeAM, DateMon) }

NextStorage ==
    \/ \E req \in StorageRequests : PredictCrowd(req)
    \/ \E req \in StorageRequests, at \in Queries : PredictCrowdDbError(req, at)
    \/ PredictCrowdStore
    \/ CreateObservation(FirstObservation)
    \/ TrainCall(City)
    \/ StartupEvent
    \/ DropAll
    \/ Tick

SpecStorage == Init /\ [][NextStorage]_vars

Absent(req) == req.trip_id \notin DOMAIN trips \/ req.stop_id \notin DOMAIN stops

\* C14 as stated: every predict request whose trip or stop is absent from
\* storage is answered 404 and returns no prediction.
C14_AbsentAlways404 ==
    [][\A req \in StorageRequests :
          (Absent(req) /\ PredictCrowd(req))
          => (last'.op = "predict" /\ last'.req = Some(req)
              /\ last'.status = 404 /\ last'.body = None)]_vars

\* C14: every predict request whose trip or stop is absent from storage,
\* that finds no cache entry for its key and whose lookups return, is
\* answered 404, returns no prediction and writes nothing to the cache,
\* whether or not the model is trained.
C14_AbsentMiss404 ==
    [][\A req \in StorageRequests :
          (Absent(req) /\ Probe(req) = None /\ PredictCrowd(req))
          => (/\ last'.op = "predict" /\ last'.req = Some(req)
              /\ last'.status = 404 /\ last'.body = None
              /\ inflight' = {} /\ cache' = cache)]_vars

C14_Witness ==
    /\ last.op = "predict" /\ last.status = 404
    /\ last.req = Some(Request(TripA, StopMissing, TimeAM, DateMon))
    /\ TripA \in DOMAIN trips /\ StopMissing \notin DOMAIN stops
    /\ bundle.is_trained

\* C15 as stated: a predict request one of whose storage queries raises
\* ends with an error response; nothing is computed for it or cached.
C15_StorageErrorFails ==
    [][\A req \in StorageRequests, at \in Queries :
          PredictCrowdDbError(req, at)
          => (/\ last'.op = "predict" /\ last'.req = Some(req)
              /\ last'.status >= 400
              /\ inflight' = {} /\ cache' = cache)]_vars

(***************************************************************************)
(* SpecHttp: the predict handler behind the router of main_app.            *)
(***************************************************************************)
\* main_app.include_router(app, prefix="/api/v1")
RouterPrefix == "/api/v1"
\* @app.post("/api/v1/predict")
PredictRoute == "/api/v1/predict"
\* Mutant: the routes are registered under their own paths.
MountedPathNoPrefix(prefix, route) == route

\* include_router registers every route of the router under prefix + path.
MountedPath(prefix, route) == prefix \o route

\* The paths a client posts to: the documented one, which the test uses,
\* and the one under which the handler is registered.
PostedPaths == {"/api/v1/predict", "/api/v1/api/v1/predict"}

\* POST path with a valid PredictionRequest body: the handler if the path
\* is its registered path, the router's 404 "Not Found" otherwise.
HttpPostPredict(path, req) ==
    IF path = MountedPath(RouterPrefix, PredictRoute)
    THEN PredictCrowd(req)
    ELSE /\ inflight = {}
         /\ last' = Response("router", Some(req), 404, None, "none", "unused")
         /\ UNCHANGED <<trips, stops, routes, observations, cache, cacheUp, bundle,
                        blob, inflight, basis, acked>>

NextHttp ==
    \/ \E path \in PostedPaths, req \in BundleRequests : HttpPostPredict(path, req)
    \/ PredictCrowdStore
    \/ CreateObservation(FirstObservation)
    \/ TrainCall(City)
    \/ StartupEvent
    \/ RedisDown
    \/ RedisUp
    \/ Tick

SpecHttp == Init /\ [][NextHttp]_vars

LoadSteps ==
    <<"agency.txt", "routes.txt", "stops.txt", "stop_amentities.txt", "trips.txt",
      "stop_times.txt", "fare_attributes.txt", "fare_rules.txt", "transfers.txt">>
FeedFiles == {LoadSteps[i] : i \in DOMAIN LoadSteps}
\* The files whose tables the prediction pipeline reads.
TableFiles == {"routes.txt", "stops.txt", "trips.txt"}

\* A file is missing, readable with rows the database takes ("ok"),
\* unreadable by pd.read_csv, or readable with rows the insert or the
\* commit rejects ("bad_rows").
Conditions == {"missing", "ok", "unreadable", "bad_rows"}

\* The feed directories tried: every choice of missing and readable table
\* files, the other six files all missing or all readable; and one faulty
\* file among files that are all missing or all readable.
Faulty(f) == {k \in FeedFiles : f[k] \in {"unreadable", "bad_rows"}}
Feeds ==
    {f \in [FeedFiles -> Conditions] :
        \/ /\ Faulty(f) = {}
           /\ \A j, k \in FeedFiles \ TableFiles : f[j] = f[k]
        \/ /\ Cardinality(Faulty(f)) = 1
           /\ \A j, k \in FeedFiles \ Faulty(f) : f[j] = f[k]}

Tables(tr, st, ro) == [trips |-> tr, stops |-> st, routes |-> ro]

\* db.add of every row of the file followed by db.commit: the rows are
\* stored unless one of them repeats a primary key, in which case the
\* IntegrityError is caught and the step rolled back.
Insert(table, rows) ==
    IF DOMAIN table \cap DOMAIN rows # {} THEN table ELSE rows @@ table

\* One load step on a file that exists and that pd.read_csv could read.
LoadStep(file, condition, t) ==
    IF condition = "bad_rows" THEN t
    ELSE IF file = "routes.txt" THEN [t EXCEPT !.routes = Insert(@, FeedRoutes)]
    ELSE IF file = "stops.txt" THEN [t EXCEPT !.stops = Insert(@, FeedStops)]
    ELSE IF file = "trips.txt" THEN [t EXCEPT !.trips = Insert(@, FeedTrips)]
    ELSE t

\* pd.read_csv raising leaves the step by an exception, except in
\* load_stop_times, which reads inside its try block.
ReadRaises(file, condition) == condition = "unreadable" /\ file # "stop_times.txt"

\* load_all_data from step i on: the tables it leaves, and the file whose
\* exception ended it, if one did.
RECURSIVE LoadAllData(_, _, _)
LoadAllData(i, feed, t) ==
    IF i > Len(LoadSteps) THEN [tables |-> t, raised |-> None]
    ELSE LET file == LoadSteps[i] IN
         IF feed[file] = "missing" THEN LoadAllData(i + 1, feed, t)
         ELSE IF ReadRaises(file, feed[file]) THEN [tables |-> t, raised |-> Some(file)]
         ELSE IF feed[file] = "unreadable" THEN LoadAllData(i + 1, feed, t)
         ELSE LoadAllData(i + 1, feed, LoadStep(file, feed[file], t))

\* load_gtfs_data
LoadGtfsData(feed) ==
    /\ inflight = {}
    /\ LET out == LoadAllData(1, feed, Tables(trips, stops, routes)) IN
       /\ trips' = out.tables.trips
       /\ stops' = out.tables.stops
       /\ routes' = out.tables.routes
       /\ last' = IF out.raised = None
                  THEN Response("load_data", None, 200, None, "none", "unused")
                  ELSE Response("load_data", None, 500,
                                Some(DataLoadingFailed(out.raised[1])), "none", "unused")
    /\ UNCHANGED <<observations, cache, cacheUp, bundle, blob, inflight, basis, acked>>

NextFeed ==
    \/ \E feed \in Feeds : LoadGtfsData(feed)
    \/ \E n \in 1..MaxObs : GenerateSampleData(n)
    \/ \E req \in StorageRequests : PredictCrowd(req)
    \/ \E req \in StorageRequests, at \in Queries : PredictCrowdDbError(req, at)
    \/ PredictCrowdStore
    \/ TrainModel
    \/ TrainCall(City)
    \/ DropAll

SpecFeed == Init /\ [][NextFeed]_vars

HttpOperations == {"predict", "train", "load_data", "generate"}

\* C17 as stated: the detail of every 500 response of predict, train,
\* load-data and generate-sample-data is a fixed message without any text
\* of the exception.
C17_GenericDetail ==
    (last.status = 500 /\ last.op \in HttpOperations)
    => (last.body # None /\ last.body[1].exception = None)

TableOfFile(file, t) ==
    IF file = "routes.txt" THEN t.routes
    ELSE IF file = "stops.txt" THEN t.stops
    ELSE t.trips

FeedRows(file) ==
    IF file = "routes.txt" THEN FeedRoutes
    ELSE IF file = "stops.txt" THEN FeedStops
    ELSE FeedTrips

\* C19 as stated: load-data answers 200 whatever files are missing or
\* faulty; a step whose file is missing inserts nothing; and neither a
\* missing file nor a failing step keeps a later step from storing the rows
\* of its readable file.
C19_LoadDataContainsFailures ==
    [][\A feed \in Feeds :
          LoadGtfsData(feed)
          => /\ last'.status = 200
             /\ \A file \in TableFiles :
                   LET before == TableOfFile(file, Tables(trips, stops, routes))
                       after == TableOfFile(file, Tables(trips', stops', routes'))
                   IN /\ feed[file] = "missing" => after = before
                      /\ feed[file] = "ok" => DOMAIN FeedRows(file) \subseteq DOMAIN after]_vars

\* C20 as stated: once train has run on a non-empty observation table, the
\* frames it assembled from storage let the feature builder merge and
\* derive its columns and let train select every feature field, with none
\* of them missing.
C20_StorageFramesComplete ==
    (last.op = "train" /\ DOMAIN observations # {})
    => /\ PrepareFeaturesOk(StorageFrames)
       /\ SelectOk(bundle, StorageFrames)

(***************************************************************************)
(* SpecTtl: direct calls of the CacheManager methods while time passes.    *)
(***************************************************************************)
TtlRequests ==
    {Request(TripA, StopS, TimeAM, DateMon), Request(TripA, StopS, TimePM, DateMon),
     Request(TripGlob, StopS, TimeAM, DateMon)}

PredictionData == {[crowd_level |-> "low"], [crowd_level |-> "high"]}

\* The steps of time: half the TTL, and one second less than the TTL.
ElapseSeconds == {CACHE_TTL \div 2, CACHE_TTL - 1}

SetPredictionCall(req, prediction_data) ==
    /\ cache' = SetPrediction(cache, cacheUp, req.trip_id, req.stop_id,
                              req.departure_time, req.date, prediction_data)
    /\ last' = Response("set", Some(req), 200, None, "none", RedisState(cacheUp))
    /\ UNCHANGED <<trips, stops, routes, observations, cacheUp, bundle, blob,
                   inflight, basis, acked>>

GetPredictionCall(req) ==
    /\ last' = Response("get", Some(req), 200,
                        GetPrediction(cache, cacheUp, req.trip_id, req.stop_id,
                                      req.departure_time, req.date),
                        "cache", RedisState(cacheUp))
    /\ UNCHANGED <<trips, stops, routes, observations, cache, cacheUp, bundle, blob,
                   inflight, basis, acked>>

InvalidatePredictionsCall(trip_id, stop_id) ==
    /\ cache' = InvalidatePredictions(cache, cacheUp, trip_id, stop_id)
    /\ last' = Response("invalidate", None, 200, None, "none", RedisState(cacheUp))
    /\ UNCHANGED <<trips, stops, routes, observations, cacheUp, bundle, blob,
                   inflight, basis, acked>>

\* The arguments invalidate_predictions is called with: None, or an id.
InvalidateTrips == {None, TripA, TripGlob}
InvalidateStops == {None, StopS}

NextTtl ==
    \/ \E req \in TtlRequests, d \in PredictionData : SetPredictionCall(req, d)
    \/ \E req \in TtlRequests : GetPredictionCall(req)
    \/ \E t \in InvalidateTrips, st \in InvalidateStops : InvalidatePredictionsCall(t, st)
    \/ \E s \in ElapseSeconds : Elapse(s)
    \/ RedisDown
    \/ RedisUp

SpecTtl == Init /\ [][NextTtl]_vars

\* C18, amended: while Redis is reachable, set_prediction stores the entry
\* with the configured TTL and get_prediction returns the stored value of
\* every entry present; every stored entry is younger than the TTL and has
\* exactly the rest of it left; when time passes, an entry survives exactly
\* if its own age stays below the TTL, with its value unchanged, whatever
\* the other entries are; a set or get of another key leaves it alone.
C18_FixedTtlPerEntry ==
    [][/\ \A k \in DOMAIN cache' :
             cache'[k].age < CACHE_TTL /\ cache'[k].ttl = CACHE_TTL - cache'[k].age
       /\ \A s \in ElapseSeconds :
             Elapse(s) =>
               \A k \in DOMAIN cache :
                  /\ k \in DOMAIN cache' <=> cache[k].age + s < CACHE_TTL
                  /\ k \in DOMAIN cache' => cache'[k].val = cache[k].val
       /\ \A req \in TtlRequests :
             /\ \A d \in PredictionData :
                   (SetPredictionCall(req, d) /\ cacheUp)
                   => cache'[KeyOf(req)] =
                         [val |-> JsonDumps(d), ttl |-> CACHE_TTL, age |-> 0]
             /\ (\E d \in PredictionData : SetPredictionCall(req, d))
                => \A k \in DOMAIN cache \ {KeyOf(req)} :
                      k \in DOMAIN cache' /\ cache'[k] = cache[k]
             /\ (GetPredictionCall(req) /\ cacheUp)
                => last'.body = IF KeyOf(req) \in DOMAIN cache
                                THEN Some(JsonLoads(cache[KeyOf(req)].val))
                                ELSE None]_vars

\* Two entries of different age are stored; the older one has half its time
\* left and was just returned by get_prediction.
C18_Witness ==
    /\ last.op = "get" /\ last.body # None
    /\ \E j, k \in DOMAIN cache :
          /\ cache[j].age = 0
          /\ cache[k].age = CACHE_TTL \div 2
          /\ last.req = Some(Request(TripA, StopS, TimeAM, DateMon))
          /\ k = KeyOf(Request(TripA, StopS, TimeAM, DateMon))

\* C18 as stated: get_prediction returns every entry that was stored, not
\* overwritten, not invalidated and whose time has not elapsed.
C18_ReturnedUntilElapsed ==
    [][\A req \in TtlRequests :
          (GetPredictionCall(req) /\ KeyOf(req) \in DOMAIN cache)
          => last'.body = Some(JsonLoads(cache[KeyOf(req)].val))]_vars

\* C21 as stated: with Redis reachable, invalidate_predictions(trip, stop)
\* deletes an entry exactly if the entry's trip is the given trip (when one
\* is given) and its stop is the given stop (when one is given).
C21_InvalidateExact ==
    [][\A t \in InvalidateTrips, st \in InvalidateStops :
          (cacheUp /\ InvalidatePredictionsCall(t, st))
          => \A req \in TtlRequests :
                KeyOf(req) \in DOMAIN cache
                => (KeyOf(req) \notin DOMAIN cache'
                    <=> /\ Given(t) => req.trip_id = t
                        /\ Given(st) => req.stop_id = st)]_vars

(***************************************************************************)
(* SpecKey: get_prediction and set_prediction on tuples whose components   *)
(* are arbitrary short strings, with and without the delimiter.            *)
(***************************************************************************)
MaxKeyLen == 2

KeyAlphabet == {"a", "b", ":"}

\* The strings of 1..MaxKeyLen characters, and those without the delimiter.
KeyStrings == UNION {[1..n -> KeyAlphabet] : n \in 1..MaxKeyLen}

ColonFree(text) == \A i \in DOMAIN text : text[i] # ":"

ColonFreeStrings == {text \in KeyStrings : ColonFree(text)}

ColonFreeTuple(req) ==
    /\ ColonFree(req.trip_id) /\ ColonFree(req.stop_id)
    /\ ColonFree(req.departure_time) /\ ColonFree(req.date)

ColonFreeTuples ==
    {Request(t, st, d, <<"a">>) :
        t \in ColonFreeStrings, st \in ColonFreeStrings, d \in ColonFreeStrings}

\* No two different delimiter-free tuples have the same key.
KeysDistinct == \A a, b \in ColonFreeTuples : a # b => KeyOf(a) # KeyOf(b)

\* The tuples the cache is called with: two without a delimiter whose
\* components concatenate to the same text, and two with a delimiter inside
\* a component.
KeyRequests ==
    {Request(<<"a">>, <<"a", "a">>, <<"a">>, <<"a">>),
     Request(<<"a", "a">>, <<"a">>, <<"a">>, <<"a">>),
     Request(<<"a", ":", "a">>, <<"a">>, <<"a">>, <<"a">>),
     Request(<<"a">>, <<"a", ":", "a">>, <<"a">>, <<"a">>)}

NextKey ==
    \/ \E req \in KeyRequests : SetPredictionCall(req, req)
    \/ \E req \in KeyRequests : GetPredictionCall(req)
    \/ \E t \in {None} \cup {req.trip_id : req \in KeyRequests} :
          InvalidatePredictionsCall(t, None)
    \/ \E seconds \in ElapseSeconds : Elapse(seconds)
    \/ RedisDown
    \/ RedisUp

SpecKey == Init /\ [][NextKey]_vars

\* C22: two different tuples of delimiter-free components have different
\* keys; set_prediction stores under the key get_prediction reads; and a
\* get for a delimiter-free tuple returns only what was set for that tuple,
\* when that was delimiter-free too.
C22_KeyInjective ==
    [][/\ KeysDistinct
       /\ \A req \in KeyRequests :
             /\ (SetPredictionCall(req, req) /\ cacheUp)
                => /\ KeyOf(req) \in DOMAIN cache'
                   /\ GetPrediction(cache', cacheUp, req.trip_id, req.stop_id,
                                    req.departure_time, req.date) = Some(req)
             /\ (GetPredictionCall(req) /\ last'.body # None /\ ColonFreeTuple(req))
                => \/ last'.body = Some(req)
                   \/ ~ColonFreeTuple(last'.body[1])]_vars

\* Both delimiter-free tuples are stored and get_prediction has just
\* returned its own entry to one of them.
C22_Witness ==
    /\ last.op = "get"
    /\ \E a, b \in KeyRequests :
          /\ a # b /\ ColonFreeTuple(a) /\ ColonFreeTuple(b)
          /\ {KeyOf(a), KeyOf(b)} \subseteq DOMAIN cache
          /\ last.req = Some(a) /\ last.body = Some(a)

\* C23: whenever predict_crowd computes a prediction, the columns of the
\* vector predict built are, in order and number, the columns the bundle's
\* classifier was fitted on and the bundle's feature ordering.
C23_SameFeatureOrder ==
    [][(inflight = {} /\ inflight' # {})
       => \A f \in inflight' :
             /\ f.response.predicted_crowd_level.columns = bundle.model.columns
             /\ f.response.predicted_crowd_level.columns = bundle.feature_columns
             /\ f.response.features_used = bundle.feature_columns
             /\ Len(f.response.predicted_crowd_level.columns) = Len(FeatureColumns)]_vars

\* A prediction has been computed by a bundle that load_model restored.
C23_Witness ==
    /\ inflight # {}
    /\ last.op = "load" /\ last.status = 200
    /\ bundle.is_trained

\* C24: a predict request, whether it is answered from the cache, fails or
\* computes a prediction, leaves the encoder, the scaler, the classifier,
\* the feature ordering and the trained flag as they were: no step that
\* changes the bundle is a predict request.
C24_PredictKeepsBundle ==
    [][bundle' # bundle
       => \A req \in BundleRequests : ~(inflight = {} /\ PredictCrowd(req))]_vars

\* A failed predict and a computing predict on a trained bundle: the time
\* of the last request did not parse, the present one is pending its cache
\* write.
C24_Witness ==
    /\ bundle.is_trained
    /\ last.op = "predict" /\ last.status = 400
    /\ last.req = Some(Request(TripA, StopS, TimeBad, DateMon))
    /\ inflight # {}

\* C25: a predict request whose key has an entry in a reachable Redis is
\* answered 200 with that entry and nothing else happens, whether or not the
\* model is trained and the trip and stop are in storage; and no storage
\* query of the request is reached, so none can fail.
C25_HitBypassesStorageAndModel ==
    [][\A req \in StorageRequests :
          (cacheUp /\ KeyOf(req) \in DOMAIN cache)
          => /\ (inflight = {} /\ PredictCrowd(req))
                => /\ last' = Response("predict", Some(req), 200,
                                       Some(JsonLoads(cache[KeyOf(req)].val)), "cache", "ok")
                   /\ inflight' = {}
                   /\ UNCHANGED <<trips, stops, routes, observations, cache, bundle>>
             /\ \A at \in Queries : ~PredictCrowdDbError(req, at)]_vars

\* A cached entry has just been returned although the model is untrained
\* and storage holds no trip and no stop.
C25_Witness ==
    /\ last.op = "predict" /\ last.status = 200 /\ last.src = "cache"
    /\ ~bundle.is_trained
    /\ trips = Empty /\ stops = Empty

\* C26: a train, through the endpoint or by a direct call, successful or
\* not, leaves every cache entry as it was, so each request that was a hit
\* before it is the same hit after it: no step that changes the cache or
\* its reachability is a train.
C26_TrainKeepsCache ==
    [][(cache' # cache \/ cacheUp' # cacheUp)
       => ~(/\ last'.op \in {"train", "train_call"}
            /\ (TrainModel \/ \E t \in TrainingSets : TrainCall(t)))]_vars

\* A predict has just returned an entry computed by another classifier than
\* the one the bundle holds now: a successful retrain came in between.
C26_Witness ==
    /\ last.op = "predict" /\ last.status = 200 /\ last.src = "cache"
    /\ bundle.is_trained /\ bundle.model.fitted
    /\ last.body[1].predicted_crowd_level.clf # bundle.model.fit

\* The zone predict encodes for the stop of req.
ZoneOf(req) == IF stops[req.stop_id] = NoZone THEN UnknownZone ELSE stops[req.stop_id]

InVocabulary(req) ==
    bundle.label_encoder.fitted /\ ZoneOf(req) \in bundle.label_encoder.classes

\* C27 as stated: with the trained flag set, a predict that misses the
\* cache, for a trip and a stop in storage and a date and time that parse,
\* computes a prediction if the zone of the stop is in the vocabulary of the
\* encoder, and otherwise is answered 400 and writes nothing to the cache.
C27_ZoneDecides ==
    [][\A req \in BundleRequests :
          (/\ inflight = {} /\ bundle.is_trained
           /\ ~NotFound(req, trips, stops)
           /\ ParseDateTime(req.date, req.departure_time) # None
           /\ Probe(req) = None
           /\ PredictCrowd(req))
          => IF InVocabulary(req)
             THEN inflight' # {}
             ELSE inflight' = {} /\ last'.status = 400 /\ cache' = cache]_vars
====
